---- MODULE Spec2Model ----
(***************************************************************************)
(* The asynchronous batch pipeline of csv-image-processor: intake          *)
(* (processCSV), source acquisition (processRecordsAsync, downloadImage),  *)
(* the image worker (processImages / processImage), result aggregation,    *)
(* persistence, artifact generation, the status record and the webhook.    *)
(*                                                                         *)
(* The repository holds two builds of the controller and of the worker:    *)
(*   "fs"  src/controllers/uploadController.js + src/unnamed/part_001:1-44 *)
(*   "s3"  src/unnamed/part_001:46-297         + src/unnamed/part_000      *)
(* The variable `variant` fixes which build a behaviour runs.              *)
(*                                                                         *)
(* A request id is Date.now().toString(); the model keeps the instant      *)
(* itself (the decimal rendering is injective and never parsed back).      *)
(***************************************************************************)
EXTENDS Integers, Sequences, FiniteSets, TLC

\* ------------------------------------------------------------------ bounds
MaxRows == 2
MaxRefs == 3

\* ------------------------------------------------------------ input domain
\* one entry of a comma-separated 'Input Image Urls' field as split(',')
\* yields it; pad: the entry is written with white space around it
UrlJpg == [file |-> "a", ext |-> ".jpg", pad |-> FALSE]
UrlPng == [file |-> "b", ext |-> ".PNG", pad |-> TRUE]
UrlGif == [file |-> "c", ext |-> ".gif", pad |-> FALSE]
Urls == {UrlJpg, UrlPng, UrlGif}

\* "" is a missing or empty 'Product Name' field; an empty url list is a
\* missing or empty 'Input Image Urls' field (split(',') of a non-empty
\* string never yields an empty list).
Names == {"", "A"}

RowsUpTo(k) ==
  UNION {{[name |-> n, urls |-> us] : n \in Names, us \in [1..j -> Urls]} : j \in 0..k}

RECURSIVE TablesUpTo(_, _)
TablesUpTo(rows, refs) ==
  IF rows = 0 THEN {<<>>}
  ELSE {<<>>} \cup
       UNION {{<<row>> \o t : t \in TablesUpTo(rows - 1, refs - Len(row.urls))} :
                row \in RowsUpTo(refs)}

Tables == TablesUpTo(MaxRows, MaxRefs)

\* ---------------------------------------------------------- pure functions
ToLowerCase(ext) ==
  CASE ext = ".PNG" -> ".png"
    [] ext = ".JPG" -> ".jpg"
    [] OTHER -> ext

validExtensions == {".jpg", ".jpeg", ".png"}

isValidImageUrl(url) == ToLowerCase(url.ext) \in validExtensions

\* String.prototype.trim
Trim(url) == [url EXCEPT !.pad = FALSE]

\* record['Input Image Urls'].split(',').map(url => url.trim())
inputUrls(row) == [k \in 1..Len(row.urls) |-> Trim(row.urls[k])]

\* path.basename(new URL(url).pathname)
Basename(url) == [file |-> url.file, ext |-> url.ext]

\* the row checks of processRecordsAsync before any download is issued
RowValid(row) ==
  /\ row.name # ""
  /\ row.urls # <<>>
  /\ \A k \in 1..Len(row.urls) : isValidImageUrl(inputUrls(row)[k])

\* where a download of `url` for request `id` is stored
StoredLocation(v, id, url) ==
  IF v = "fs" THEN [dir |-> "input", base |-> Basename(url)]
  ELSE [dir |-> "input", req |-> id, base |-> Basename(url)]

\* the reference processImage returns for a stored location it transformed
OutputRef(v, loc) ==
  IF v = "fs" THEN [dir |-> "output", base |-> loc.base]
  ELSE [dir |-> "output", req |-> loc.req, base |-> loc.base]

Null == [null |-> TRUE]

RECURSIVE Flatten(_)
Flatten(ss) == IF ss = <<>> THEN <<>> ELSE Head(ss) \o Flatten(Tail(ss))

RECURSIVE FilterNotNull(_)
FilterNotNull(s) ==
  IF s = <<>> THEN <<>>
  ELSE IF Head(s) = Null THEN FilterNotNull(Tail(s))
       ELSE <<Head(s)>> \o FilterNotNull(Tail(s))

\* Array.prototype.slice(from, to) with 0-based, end-exclusive indices,
\* clamped to the array as JavaScript does
Slice(s, from, to) ==
  LET hi == IF to > Len(s) THEN Len(s) ELSE to
  IN  IF from >= hi THEN <<>> ELSE [i \in 1..(hi - from) |-> s[from + i]]

RECURSIVE SumLen(_)
SumLen(ss) == IF ss = <<>> THEN 0 ELSE Len(Head(ss)) + SumLen(Tail(ss))

\* ------------------------------------------------------------------- state
VARIABLES
  variant,       \* "fs" or "s3": which build of controller and worker runs
  workload,      \* the intake requests: <<[table, at]>>, at = Date.now()
  pc,            \* per request: where its handler / pipeline stands
  response,      \* per request: the intake response sent (code 0 = none yet)
  statusStore,   \* RequestStatus collection: requestId -> document
  dl,            \* per request, row, reference: state of that download
  results,       \* per request: the `results` array of the pipeline
  transform,     \* per request: per dispatched location, did sharp succeed
  message,       \* per request: the message the worker posted
  idx,           \* per request: loop index of the save loop
  err,           \* per request: error.message held by the running handler
  products,      \* Product collection: the documents saved, in order
  artifacts,     \* output CSV files: requestId -> rows
  webhookCalls,  \* the forms triggerWebhook posted, in order
  workerEnd,     \* per request: how its worker ended ("" = not yet)
  saveLog,       \* per request: outcome of each product.save() attempted
  blobs,         \* stored source files: location -> whose download it holds
  outBlobs,      \* transformed files: output location -> the source it was made from
  lastQuery,     \* the answer of the latest status query
  arrival,       \* per request: <<row, reference>> of the downloads its Promise.all
                 \* combines, as they completed; dropped once its worker has ended
  workerData     \* per request: the locations handed to the worker it started

vars == <<variant, workload, pc, response, statusStore, dl, results, transform,
          message, idx, err, products, artifacts, webhookCalls, workerEnd,
          saveLog, blobs, outBlobs, lastQuery, arrival, workerData>>

Reqs == DOMAIN workload

RequestId(r) == workload[r].at

Terminal == {"completed", "failed"}

\* where a pipeline stands once it has stopped: its last handler returned, or
\* a handler's promise rejected with nothing awaiting it
Ended == {"done", "unhandled"}

NoResponse == [code |-> 0, error |-> "", requestId |-> 0]

NoDoc == [status |-> "", completedAt |-> FALSE, error |-> ""]

\* no status query was answered yet
NoQuery == [id |-> 0, code |-> 0, body |-> NoDoc]

\* RequestStatus.create({ requestId, status: 'processing' })
NewStatusDoc == [status |-> "processing", completedAt |-> FALSE, error |-> ""]

\* findOneAndUpdate({ requestId }, { status: 'failed', error }): a no-op when
\* no document matches
SetFailed(store, id, msg) ==
  IF id \in DOMAIN store
  THEN [store EXCEPT ![id] = [@ EXCEPT !.status = "failed", !.error = msg]]
  ELSE store

\* findOneAndUpdate({ requestId }, { status: 'completed', completedAt })
SetCompleted(store, id) ==
  IF id \in DOMAIN store
  THEN [store EXCEPT ![id] = [@ EXCEPT !.status = "completed", !.completedAt = TRUE]]
  ELSE store

InitCommon ==
  /\ variant \in {"fs", "s3"}
  /\ pc = [r \in Reqs |-> "new"]
  /\ response = [r \in Reqs |-> NoResponse]
  /\ statusStore = <<>>
  /\ dl = [r \in Reqs |-> <<>>]
  /\ results = [r \in Reqs |-> <<>>]
  /\ transform = [r \in Reqs |-> <<>>]
  /\ message = [r \in Reqs |-> <<>>]
  /\ idx = [r \in Reqs |-> 0]
  /\ err = [r \in Reqs |-> ""]
  /\ products = <<>>
  /\ artifacts = <<>>
  /\ webhookCalls = <<>>
  /\ workerEnd = [r \in Reqs |-> ""]
  /\ saveLog = [r \in Reqs |-> <<>>]
  /\ blobs = <<>>
  /\ outBlobs = <<>>
  /\ lastQuery = NoQuery
  /\ arrival = [r \in Reqs |-> <<>>]
  /\ workerData = [r \in Reqs |-> <<>>]

\* one intake request carrying any table of the input domain
Init ==
  /\ workload \in {<<[table |-> t, at |-> 1]>> : t \in Tables}
  /\ InitCommon

\* ------------------------------------------------------------------ intake
\* the per-row async callbacks of records.map run synchronously up to their
\* first await: a valid row has issued all its downloads, an invalid row has
\* thrown before issuing any
StartDownloads(rows) ==
  [i \in 1..Len(rows) |->
     [k \in 1..Len(rows[i].urls) |-> IF RowValid(rows[i]) THEN "pending" ELSE "none"]]

\* mutant of BuildResults: an item's stored locations are collected in the
\* order its downloads completed
BuildResults_CompletionOrder(v, id, rows) ==
  LET r == CHOOSE q \in Reqs : RequestId(q) = id
      order(i) == SelectSeq(arrival'[r], LAMBDA p : p[1] = i)
  IN
  [i \in 1..Len(rows) |->
     [productName     |-> rows[i].name,
      inputImageUrls  |-> inputUrls(rows[i]),
      downloadedPaths |-> [k \in 1..Len(rows[i].urls) |->
                             StoredLocation(v, id, inputUrls(rows[i])[order(i)[k][2]])],
      outputImageUrls |-> <<>>]]

\* the `results` array once every download promise resolved
BuildResults(v, id, rows) ==
  [i \in 1..Len(rows) |->
     [productName     |-> rows[i].name,
      inputImageUrls  |-> inputUrls(rows[i]),
      downloadedPaths |-> [k \in 1..Len(rows[i].urls) |->
                             StoredLocation(v, id, inputUrls(rows[i])[k])],
      outputImageUrls |-> <<>>]]

\* what processImagesAsync hands to the worker it starts: the fs build the
\* flat list results.flatMap(r => r.downloadedPaths) as workerData, the s3
\* build the results themselves, of which the worker reads each item's
\* downloadedPaths
Dispatched(v, res) ==
  IF v = "fs"
  THEN Flatten([i \in 1..Len(res) |-> res[i].downloadedPaths])
  ELSE [i \in 1..Len(res) |-> res[i].downloadedPaths]

\* the answers processCSV gives before it creates anything: no file, no
\* webhook url, a file that cannot be read (fs) or uploaded (s3), a file that
\* does not parse (fs: 400 from the inner catch, s3: 500 from the outer one)
EarlyAnswers(v) ==
  {[code |-> 400, error |-> "No file uploaded", requestId |-> 0],
   [code |-> 400, error |-> "Webhook URL is required", requestId |-> 0],
   [code |-> 500, error |-> "Error processing CSV file", requestId |-> 0]}
  \cup (IF v = "fs"
        THEN {[code |-> 400, error |-> "CSV Format error", requestId |-> 0]}
        ELSE {})

\* mutant of ProcessCSV: requestId carries no unique index, so create stores
\* a record under an id that is already taken
ProcessCSV_NoUniqueIndex(r) ==
  /\ pc[r] = "new"
  /\ LET id   == RequestId(r)
         rows == workload[r].table
     IN
     \/ \* the request is answered before a status record is created
        /\ \E a \in EarlyAnswers(variant) : response' = [response EXCEPT ![r] = a]
        /\ pc' = [pc EXCEPT ![r] = "rejected"]
        /\ UNCHANGED <<statusStore, dl, results, err>>
     \/ \* RequestStatus.create throws: a store failure, or the unique index
        \* on requestId when the id is taken
        /\ response' = [response EXCEPT ![r] =
                          [code |-> 500, error |-> "Error processing CSV file",
                           requestId |-> 0]]
        /\ pc' = [pc EXCEPT ![r] = "rejected"]
        /\ UNCHANGED <<statusStore, dl, results, err>>
     \/ /\ statusStore' = (id :> NewStatusDoc) @@ statusStore
        /\ response' = [response EXCEPT ![r] =
                          [code |-> 200, error |-> "", requestId |-> id]]
        /\ dl' = [dl EXCEPT ![r] = StartDownloads(rows)]
        /\ IF \E i \in 1..Len(rows) : ~RowValid(rows[i])
           THEN /\ pc' = [pc EXCEPT ![r] = "fetchCatch"]
                /\ err' = [err EXCEPT ![r] = "CSV Format error"]
                /\ UNCHANGED results
           ELSE IF rows = <<>>
           THEN \* Promise.all([]) resolves: processImagesAsync starts the worker
                /\ pc' = [pc EXCEPT ![r] = "worker"]
                /\ results' = [results EXCEPT ![r] = <<>>]
                /\ UNCHANGED err
           ELSE /\ pc' = [pc EXCEPT ![r] = "fetch"]
                /\ UNCHANGED <<results, err>>
  /\ workerData' = [workerData EXCEPT ![r] =
                     IF pc'[r] = "worker" THEN Dispatched(variant, results'[r]) ELSE @]
  /\ UNCHANGED <<workerEnd, saveLog, blobs, outBlobs, lastQuery, arrival>>
  /\ UNCHANGED <<variant, workload, transform, message, idx, products, artifacts,
                 webhookCalls>>

\* mutant of ProcessCSV: the request is answered and the pipeline started
\* without the status record being created
ProcessCSV_RespondsOnly(r) ==
  /\ pc[r] = "new"
  /\ LET id   == RequestId(r)
         rows == workload[r].table
     IN
     /\ response' = [response EXCEPT ![r] =
                       [code |-> 200, error |-> "", requestId |-> id]]
     /\ dl' = [dl EXCEPT ![r] = StartDownloads(rows)]
     /\ IF \E i \in 1..Len(rows) : ~RowValid(rows[i])
        THEN /\ pc' = [pc EXCEPT ![r] = "fetchCatch"]
             /\ err' = [err EXCEPT ![r] = "CSV Format error"]
             /\ UNCHANGED results
        ELSE IF rows = <<>>
        THEN /\ pc' = [pc EXCEPT ![r] = "worker"]
             /\ results' = [results EXCEPT ![r] = <<>>]
             /\ UNCHANGED err
        ELSE /\ pc' = [pc EXCEPT ![r] = "fetch"]
             /\ UNCHANGED <<results, err>>
  /\ workerData' = [workerData EXCEPT ![r] =
                     IF pc'[r] = "worker" THEN Dispatched(variant, results'[r]) ELSE @]
  /\ UNCHANGED <<workerEnd, saveLog, blobs, outBlobs, lastQuery, statusStore, arrival>>
  /\ UNCHANGED <<variant, workload, transform, message, idx, products, artifacts,
                 webhookCalls>>

\* processCSV, with the synchronous prefix of processRecordsAsync it calls
ProcessCSV(r) ==
  /\ pc[r] = "new"
  /\ LET id   == RequestId(r)
         rows == workload[r].table
     IN
     \/ \* the request is answered before a status record is created
        /\ \E a \in EarlyAnswers(variant) : response' = [response EXCEPT ![r] = a]
        /\ pc' = [pc EXCEPT ![r] = "rejected"]
        /\ UNCHANGED <<statusStore, dl, results, err>>
     \/ \* RequestStatus.create throws: a store failure, or the unique index
        \* on requestId when the id is taken
        /\ response' = [response EXCEPT ![r] =
                          [code |-> 500, error |-> "Error processing CSV file",
                           requestId |-> 0]]
        /\ pc' = [pc EXCEPT ![r] = "rejected"]
        /\ UNCHANGED <<statusStore, dl, results, err>>
     \/ /\ id \notin DOMAIN statusStore
        /\ statusStore' = (id :> NewStatusDoc) @@ statusStore
        /\ response' = [response EXCEPT ![r] =
                          [code |-> 200, error |-> "", requestId |-> id]]
        /\ dl' = [dl EXCEPT ![r] = StartDownloads(rows)]
        /\ IF \E i \in 1..Len(rows) : ~RowValid(rows[i])
           THEN /\ pc' = [pc EXCEPT ![r] = "fetchCatch"]
                /\ err' = [err EXCEPT ![r] = "CSV Format error"]
                /\ UNCHANGED results
           ELSE IF rows = <<>>
           THEN \* Promise.all([]) resolves: processImagesAsync starts the worker
                /\ pc' = [pc EXCEPT ![r] = "worker"]
                /\ results' = [results EXCEPT ![r] = <<>>]
                /\ UNCHANGED err
           ELSE /\ pc' = [pc EXCEPT ![r] = "fetch"]
                /\ UNCHANGED <<results, err>>
  /\ workerData' = [workerData EXCEPT ![r] =
                     IF pc'[r] = "worker" THEN Dispatched(variant, results'[r]) ELSE @]
  /\ UNCHANGED <<workerEnd, saveLog, blobs, outBlobs, lastQuery, arrival>>
  /\ UNCHANGED <<variant, workload, transform, message, idx, products, artifacts,
                 webhookCalls>>

\* ------------------------------------------------------------------- fetch
AllDone(d) == \A i \in 1..Len(d) : \A k \in 1..Len(d[i]) : d[i][k] = "done"

\* how one download promise can end: resolve, reject, or (fs build only) never
\* settle, when the source stream errors after the response arrived and the
\* piped writer emits neither 'finish' nor 'error'
DownloadOutcomes(v) == IF v = "fs" THEN {"done", "failed", "hung"} ELSE {"done", "failed"}

\* one download of request r settles while Promise.all is still pending.
\* Downloads still in flight after Promise.all rejected are not followed:
\* their results are discarded.
Download(r, i, k) ==
  /\ pc[r] = "fetch"
  /\ dl[r][i][k] = "pending"
  /\ \E o \in DownloadOutcomes(variant) :
       LET d == [dl[r] EXCEPT ![i][k] = o] IN
       /\ dl' = [dl EXCEPT ![r] = d]
       /\ arrival' = IF o = "done"
                     THEN [arrival EXCEPT ![r] = Append(@, <<i, k>>)]
                     ELSE arrival
       /\ blobs' = IF o = "done"
                   THEN LET url == inputUrls(workload[r].table[i])[k] IN
                        (StoredLocation(variant, RequestId(r), url)
                           :> [req |-> RequestId(r), url |-> url]) @@ blobs
                   ELSE blobs
       /\ CASE o = "failed" ->
                 /\ pc' = [pc EXCEPT ![r] = "fetchCatch"]
                 /\ err' = [err EXCEPT ![r] = "download failed"]
                 /\ UNCHANGED results
            [] o = "done" /\ AllDone(d) ->
                 /\ pc' = [pc EXCEPT ![r] = "worker"]
                 /\ results' = [results EXCEPT ![r] =
                                  BuildResults(variant, RequestId(r), workload[r].table)]
                 /\ UNCHANGED err
            [] OTHER -> UNCHANGED <<pc, results, err>>
  /\ workerData' = [workerData EXCEPT ![r] =
                     IF pc'[r] = "worker" THEN Dispatched(variant, results'[r]) ELSE @]
  /\ UNCHANGED <<workerEnd, saveLog, outBlobs, lastQuery>>
  /\ UNCHANGED <<variant, workload, response, statusStore, transform, message, idx,
                 products, artifacts, webhookCalls>>

\* the catch block of processRecordsAsync
FetchCatch(r) ==
  /\ pc[r] = "fetchCatch"
  /\ \/ \* the status write succeeds
        /\ statusStore' = SetFailed(statusStore, RequestId(r), err[r])
        /\ pc' = [pc EXCEPT ![r] = IF variant = "fs" THEN "done" ELSE "notifyErr"]
     \/ \* the status write rejects: an unhandled rejection of the pipeline
        /\ pc' = [pc EXCEPT ![r] = "unhandled"]
        /\ UNCHANGED statusStore
  /\ UNCHANGED <<workerEnd, saveLog, blobs, outBlobs, lastQuery, arrival,
                 workerData>>
  /\ UNCHANGED <<variant, workload, response, dl, results, transform, message, idx,
                 err, products, artifacts, webhookCalls>>

\* ------------------------------------------------------------------ worker
\* processImage: the output reference, or null when sharp throws (unsupported
\* format, undecodable file, failed write)
processImage(v, loc, ok) == IF ok THEN OutputRef(v, loc) ELSE Null

\* number of references of the items before item i
Offset(res, i) == SumLen([j \in 1..(i - 1) |-> res[j].inputImageUrls])

\* fs worker: processImages(workerData), workerData = flatMap(downloadedPaths);
\* tr[p] tells whether the transform of the p-th location succeeds
processImages(v, res, tr) ==
  LET images == Flatten([i \in 1..Len(res) |-> res[i].downloadedPaths])
      outs   == [p \in 1..Len(images) |-> processImage(v, images[p], tr[p])]
  IN  FilterNotNull(outs)

\* s3 worker: parentPort.on('message'), one filtered list per item
processedResults(v, res, tr) ==
  [i \in 1..Len(res) |->
     FilterNotNull([k \in 1..Len(res[i].downloadedPaths) |->
                      processImage(v, res[i].downloadedPaths[k], tr[Offset(res, i) + k])])]

\* the files the worker writes: each location whose transform succeeds is
\* read from the store and its recompression written to the output location
Transformed(v, res, tr, store) ==
  LET images == Flatten([i \in 1..Len(res) |-> res[i].downloadedPaths])
      ok     == {images[p] : p \in {q \in 1..Len(images) : tr[q]}}
  IN  [o \in {OutputRef(v, loc) : loc \in ok} |->
         store[CHOOSE loc \in ok : OutputRef(v, loc) = o]]

\* fs message handler: the slice of the flat message taken for item i
recordOutputUrls(res, outputUrls, i) ==
  Slice(outputUrls, Offset(res, i), Offset(res, i) + Len(res[i].inputImageUrls))

\* the worker ran every transform and posted its message; the coordinator's
\* 'message' handler starts (s3: results.forEach assigns every item's list)
WorkerMessage(r) ==
  /\ pc[r] = "worker"
  /\ \E tr \in [1..SumLen([i \in 1..Len(results[r]) |-> results[r][i].downloadedPaths])
                 -> BOOLEAN] :
       /\ transform' = [transform EXCEPT ![r] = tr]
       /\ outBlobs' = Transformed(variant, results[r], tr, blobs) @@ outBlobs
       /\ IF variant = "fs"
          THEN /\ message' = [message EXCEPT ![r] = processImages(variant, results[r], tr)]
               /\ UNCHANGED results
          ELSE LET out == processedResults(variant, results[r], tr) IN
               /\ message' = [message EXCEPT ![r] = out]
               /\ results' = [results EXCEPT ![r] =
                                [i \in 1..Len(results[r]) |->
                                   [results[r][i] EXCEPT !.outputImageUrls = out[i]]]]
  /\ pc' = [pc EXCEPT ![r] = IF results[r] = <<>> THEN "csv" ELSE "save"]
  /\ idx' = [idx EXCEPT ![r] = 1]
  /\ workerEnd' = [workerEnd EXCEPT ![r] = "message"]
  /\ arrival' = [arrival EXCEPT ![r] = <<>>]
  /\ UNCHANGED <<saveLog, blobs, lastQuery, workerData>>
  /\ UNCHANGED <<variant, workload, response, statusStore, dl, err, products,
                 artifacts, webhookCalls>>

\* the worker ends with a non-zero exit code without 'message' or 'error':
\* the 'exit' handler only logs
WorkerExit(r) ==
  /\ pc[r] = "worker"
  /\ pc' = [pc EXCEPT ![r] = "done"]
  /\ workerEnd' = [workerEnd EXCEPT ![r] = "exit"]
  /\ arrival' = [arrival EXCEPT ![r] = <<>>]
  /\ UNCHANGED <<saveLog, blobs, outBlobs, lastQuery, workerData>>
  /\ UNCHANGED <<variant, workload, response, statusStore, dl, results, transform,
                 message, idx, err, products, artifacts, webhookCalls>>

\* mutant of WorkerError: the rejected status write is swallowed and the
\* handler goes on to call the notifier
WorkerError_NotifiesAnyway(r) ==
  /\ pc[r] = "worker"
  /\ err' = [err EXCEPT ![r] = "worker error"]
  /\ workerEnd' = [workerEnd EXCEPT ![r] = "error"]
  /\ \/ /\ statusStore' = SetFailed(statusStore, RequestId(r), "worker error")
        /\ pc' = [pc EXCEPT ![r] = "notifyErr"]
     \/ /\ pc' = [pc EXCEPT ![r] = "notifyErr"]
        /\ UNCHANGED statusStore
  /\ arrival' = [arrival EXCEPT ![r] = <<>>]
  /\ UNCHANGED <<saveLog, blobs, outBlobs, lastQuery, workerData>>
  /\ UNCHANGED <<variant, workload, response, dl, results, transform, message, idx,
                 products, artifacts, webhookCalls>>

\* the worker emits 'error': the handler writes the failed status
WorkerError(r) ==
  /\ pc[r] = "worker"
  /\ err' = [err EXCEPT ![r] = "worker error"]
  /\ workerEnd' = [workerEnd EXCEPT ![r] = "error"]
  /\ \/ /\ statusStore' = SetFailed(statusStore, RequestId(r), "worker error")
        /\ pc' = [pc EXCEPT ![r] = "notifyErr"]
     \/ \* the status write rejects: the handler's promise is dropped
        /\ pc' = [pc EXCEPT ![r] = "unhandled"]
        /\ UNCHANGED statusStore
  /\ arrival' = [arrival EXCEPT ![r] = <<>>]
  /\ UNCHANGED <<saveLog, blobs, outBlobs, lastQuery, workerData>>
  /\ UNCHANGED <<variant, workload, response, dl, results, transform, message, idx,
                 products, artifacts, webhookCalls>>

\* --------------------------------------------------------- message handler
\* the address an output reference is published under
PublicUrl(v, ref) == IF v = "fs" THEN [host |-> "host", path |-> ref] ELSE ref

ProductDoc(v, item) ==
  [productName  |-> item.productName,
   inputImages  |-> [k \in 1..Len(item.inputImageUrls) |->
                       [url |-> item.inputImageUrls[k],
                        storagePath |-> item.downloadedPaths[k]]],
   outputImages |-> [k \in 1..Len(item.outputImageUrls) |->
                       [url |-> PublicUrl(v, item.outputImageUrls[k]),
                        storagePath |-> item.outputImageUrls[k]]]]

\* one turn of the save loop: (fs) slice and filter the item's outputs, then
\* product.save(), which may reject
SaveProduct(r) ==
  /\ pc[r] = "save"
  /\ LET i    == idx[r]
         item == IF variant = "fs"
                 THEN [results[r][i] EXCEPT !.outputImageUrls =
                         FilterNotNull(recordOutputUrls(results[r], message[r], i))]
                 ELSE results[r][i]
         next == IF i = Len(results[r]) THEN "csv" ELSE "save"
     IN
     /\ results' = [results EXCEPT ![r][i] = item]
     /\ \/ /\ products' = Append(products, ProductDoc(variant, item))
           /\ saveLog' = [saveLog EXCEPT ![r] = Append(@, "saved")]
           /\ pc' = [pc EXCEPT ![r] = next]
           /\ idx' = [idx EXCEPT ![r] = i + 1]
           /\ UNCHANGED err
        \/ \* save rejects: fs logs and goes on, s3 leaves the loop
           /\ UNCHANGED products
           /\ saveLog' = [saveLog EXCEPT ![r] = Append(@, "failed")]
           /\ IF variant = "fs"
              THEN /\ pc' = [pc EXCEPT ![r] = next]
                   /\ idx' = [idx EXCEPT ![r] = i + 1]
                   /\ UNCHANGED err
              ELSE /\ pc' = [pc EXCEPT ![r] = "msgCatch"]
                   /\ err' = [err EXCEPT ![r] = "save failed"]
                   /\ UNCHANGED idx
  /\ UNCHANGED <<workerEnd, blobs, outBlobs, lastQuery, arrival, workerData>>
  /\ UNCHANGED <<variant, workload, response, statusStore, dl, transform, message,
                 artifacts, webhookCalls>>

\* mutant of CsvRows: the rows are written in reverse order
CsvRows_Reversed(v, res) ==
  [i \in 1..Len(res) |->
     [name    |-> res[Len(res) + 1 - i].productName,
      inputs  |-> res[Len(res) + 1 - i].inputImageUrls,
      outputs |-> [k \in 1..Len(res[Len(res) + 1 - i].outputImageUrls) |->
                     PublicUrl(v, res[Len(res) + 1 - i].outputImageUrls[k])]]]

\* the rows handed to stringify
CsvRows(v, res) ==
  [i \in 1..Len(res) |->
     [name    |-> res[i].productName,
      inputs  |-> res[i].inputImageUrls,
      outputs |-> [k \in 1..Len(res[i].outputImageUrls) |->
                     PublicUrl(v, res[i].outputImageUrls[k])]]]

\* mutant of WriteCsv: a rejected write is swallowed and the handler goes on
\* to the completed status without a stored artifact
WriteCsv_IgnoresFailure(r) ==
  /\ pc[r] = "csv"
  /\ \/ /\ artifacts' = (RequestId(r) :> CsvRows(variant, results[r])) @@ artifacts
        /\ pc' = [pc EXCEPT ![r] = "complete"]
        /\ UNCHANGED err
     \/ /\ pc' = [pc EXCEPT ![r] = "complete"]
        /\ UNCHANGED <<err, artifacts>>
  /\ UNCHANGED <<workerEnd, saveLog, blobs, outBlobs, lastQuery, arrival,
                 workerData>>
  /\ UNCHANGED <<variant, workload, response, statusStore, dl, results, transform,
                 message, idx, products, webhookCalls>>

\* generate the output CSV and store it (writeFile / uploadToS3)
WriteCsv(r) ==
  /\ pc[r] = "csv"
  /\ \/ /\ artifacts' = (RequestId(r) :> CsvRows(variant, results[r])) @@ artifacts
        /\ pc' = [pc EXCEPT ![r] = "complete"]
        /\ UNCHANGED err
     \/ /\ pc' = [pc EXCEPT ![r] = "msgCatch"]
        /\ err' = [err EXCEPT ![r] = "write failed"]
        /\ UNCHANGED artifacts
  /\ UNCHANGED <<workerEnd, saveLog, blobs, outBlobs, lastQuery, arrival,
                 workerData>>
  /\ UNCHANGED <<variant, workload, response, statusStore, dl, results, transform,
                 message, idx, products, webhookCalls>>

\* update the status to completed
WriteCompleted(r) ==
  /\ pc[r] = "complete"
  /\ \/ /\ statusStore' = SetCompleted(statusStore, RequestId(r))
        /\ pc' = [pc EXCEPT ![r] = "notify"]
        /\ UNCHANGED err
     \/ /\ pc' = [pc EXCEPT ![r] = "msgCatch"]
        /\ err' = [err EXCEPT ![r] = "status write failed"]
        /\ UNCHANGED statusStore
  /\ UNCHANGED <<workerEnd, saveLog, blobs, outBlobs, lastQuery, arrival,
                 workerData>>
  /\ UNCHANGED <<variant, workload, response, dl, results, transform, message, idx,
                 products, artifacts, webhookCalls>>

\* the catch block of the message handler
MessageCatch(r) ==
  /\ pc[r] = "msgCatch"
  /\ \/ /\ statusStore' = SetFailed(statusStore, RequestId(r), err[r])
        /\ pc' = [pc EXCEPT ![r] = "notifyErr"]
     \/ /\ pc' = [pc EXCEPT ![r] = "unhandled"]
        /\ UNCHANGED statusStore
  /\ UNCHANGED <<workerEnd, saveLog, blobs, outBlobs, lastQuery, arrival,
                 workerData>>
  /\ UNCHANGED <<variant, workload, response, dl, results, transform, message, idx,
                 err, products, artifacts, webhookCalls>>

\* ---------------------------------------------------------------- notifier
\* the multipart form triggerWebhook builds. hasCsv: a csv path was passed;
\* readable: (s3) downloadFromS3 of the artifact succeeded
WebhookForm(v, id, hasCsv, error, readable) ==
  [requestId |-> id,
   csv       |-> hasCsv /\ (v = "fs" \/ readable),
   error     |-> IF error # "" THEN error
                 ELSE IF hasCsv /\ v = "s3" /\ ~readable
                      THEN "Error retrieving CSV file" ELSE ""]

\* mutant of NotifySuccess: triggerWebhook lets a failed post escape, so the
\* message handler's catch block runs after the completed write
NotifySuccess_Rethrows(r) ==
  /\ pc[r] = "notify"
  /\ \E readable \in (IF variant = "fs" THEN {TRUE} ELSE BOOLEAN), delivered \in BOOLEAN :
       /\ webhookCalls' = Append(webhookCalls,
                                 [form |-> WebhookForm(variant, RequestId(r), TRUE, "", readable),
                                  delivered |-> delivered])
       /\ IF delivered
          THEN /\ pc' = [pc EXCEPT ![r] = "done"]
               /\ UNCHANGED err
          ELSE /\ pc' = [pc EXCEPT ![r] = "msgCatch"]
               /\ err' = [err EXCEPT ![r] = "webhook failed"]
  /\ UNCHANGED <<workerEnd, saveLog, blobs, outBlobs, lastQuery, arrival,
                 workerData>>
  /\ UNCHANGED <<variant, workload, response, statusStore, dl, results, transform,
                 message, idx, products, artifacts>>

\* triggerWebhook(requestId, outputCsvPath, webhookUrl) after the completed
\* write; a failed post is caught and logged
NotifySuccess(r) ==
  /\ pc[r] = "notify"
  /\ \E readable \in (IF variant = "fs" THEN {TRUE} ELSE BOOLEAN), delivered \in BOOLEAN :
       webhookCalls' = Append(webhookCalls,
                              [form |-> WebhookForm(variant, RequestId(r), TRUE, "", readable),
                               delivered |-> delivered])
  /\ pc' = [pc EXCEPT ![r] = "done"]
  /\ UNCHANGED <<workerEnd, saveLog, blobs, outBlobs, lastQuery, arrival,
                 workerData>>
  /\ UNCHANGED <<variant, workload, response, statusStore, dl, results, transform,
                 message, idx, err, products, artifacts>>

\* mutant of NotifyFailure: a failed post is recorded in the status record
NotifyFailure_RecordsDeliveryError(r) ==
  /\ pc[r] = "notifyErr"
  /\ \E delivered \in BOOLEAN :
       /\ webhookCalls' = Append(webhookCalls,
                                 [form |-> WebhookForm(variant, RequestId(r), FALSE, err[r], TRUE),
                                  delivered |-> delivered])
       /\ statusStore' = IF delivered THEN statusStore
                         ELSE SetFailed(statusStore, RequestId(r), "webhook failed")
  /\ pc' = [pc EXCEPT ![r] = "done"]
  /\ UNCHANGED <<workerEnd, saveLog, blobs, outBlobs, lastQuery, arrival,
                 workerData>>
  /\ UNCHANGED <<variant, workload, response, dl, results, transform,
                 message, idx, err, products, artifacts>>

\* triggerWebhook(requestId, null, webhookUrl, error.message) after a failed
\* write
NotifyFailure(r) ==
  /\ pc[r] = "notifyErr"
  /\ \E delivered \in BOOLEAN :
       webhookCalls' = Append(webhookCalls,
                              [form |-> WebhookForm(variant, RequestId(r), FALSE, err[r], TRUE),
                               delivered |-> delivered])
  /\ pc' = [pc EXCEPT ![r] = "done"]
  /\ UNCHANGED <<workerEnd, saveLog, blobs, outBlobs, lastQuery, arrival,
                 workerData>>
  /\ UNCHANGED <<variant, workload, response, statusStore, dl, results, transform,
                 message, idx, err, products, artifacts>>

\* ------------------------------------------------------------ status query
\* the ids a client asks about: ids of jobs and an id no job has
QueryIds == {1, 2}

\* what getStatus answers when findOne resolves
Answer(store, id) ==
  IF id \in DOMAIN store
  THEN [id |-> id, code |-> 200, body |-> store[id]]
  ELSE [id |-> id, code |-> 404, body |-> NoDoc]

\* mutant of GetStatus: the lookup creates the record it does not find
GetStatus_CreatesMissing(id) ==
  /\ statusStore' = IF id \in DOMAIN statusStore
                    THEN statusStore
                    ELSE (id :> NewStatusDoc) @@ statusStore
  /\ lastQuery' = Answer(statusStore', id)
  /\ UNCHANGED <<workerEnd, saveLog, blobs, outBlobs, arrival, workerData>>
  /\ UNCHANGED <<variant, workload, pc, response, dl, results, transform,
                 message, idx, err, products, artifacts, webhookCalls>>

\* getStatus: findOne by requestId, 404 when there is none, 500 when the
\* lookup rejects
GetStatus(id) ==
  /\ \/ lastQuery' = Answer(statusStore, id)
     \/ lastQuery' = [id |-> id, code |-> 500, body |-> NoDoc]
  /\ UNCHANGED <<workerEnd, saveLog, blobs, outBlobs, statusStore, arrival,
                 workerData>>
  /\ UNCHANGED <<variant, workload, pc, response, dl, results, transform,
                 message, idx, err, products, artifacts, webhookCalls>>

\* --------------------------------------------------------- specifications
Pipeline(r) ==
  \/ \E i \in 1..Len(dl[r]) : \E k \in 1..Len(dl[r][i]) : Download(r, i, k)
  \/ FetchCatch(r)
  \/ WorkerMessage(r)
  \/ WorkerError(r)
  \/ WorkerExit(r)
  \/ SaveProduct(r)
  \/ WriteCsv(r)
  \/ WriteCompleted(r)
  \/ MessageCatch(r)
  \/ NotifySuccess(r)
  \/ NotifyFailure(r)

Next ==
  \/ \E r \in Reqs : ProcessCSV(r)
  \/ \E r \in Reqs : \E i \in 1..Len(dl[r]) : \E k \in 1..Len(dl[r][i]) : Download(r, i, k)
  \/ \E r \in Reqs : FetchCatch(r)
  \/ \E r \in Reqs : WorkerMessage(r)
  \/ \E r \in Reqs : WorkerError(r)
  \/ \E r \in Reqs : WorkerExit(r)
  \/ \E r \in Reqs : SaveProduct(r)
  \/ \E r \in Reqs : WriteCsv(r)
  \/ \E r \in Reqs : WriteCompleted(r)
  \/ \E r \in Reqs : MessageCatch(r)
  \/ \E r \in Reqs : NotifySuccess(r)
  \/ \E r \in Reqs : NotifyFailure(r)

Spec == Init /\ [][Next]_vars

\* two requests handled by one process: the second arrives in the same
\* millisecond as the first or in a later one, and their steps interleave
InitTwo ==
  /\ workload \in {<<[table |-> t1, at |-> 1], [table |-> t2, at |-> a]>> :
                     t1 \in TablesUpTo(1, 1), t2 \in TablesUpTo(1, 1), a \in {1, 2}}
  /\ InitCommon

SpecTwo == InitTwo /\ [][Next]_vars

\* the pipeline with status queries arriving at any time
NextQuery ==
  \/ Next
  \/ \E id \in QueryIds : GetStatus(id)

\* one job of at most one row: the status query does not look at the table
InitQuery ==
  /\ workload \in {<<[table |-> t, at |-> 1]>> : t \in TablesUpTo(1, MaxRefs)}
  /\ InitCommon

SpecQuery == InitQuery /\ [][NextQuery]_vars

\* ------------------------------------------------------------ observations
\* intake answered with a job id
Accepted(r) == response[r].requestId # 0

HasStatus(r) == RequestId(r) \in DOMAIN statusStore

StatusOf(r) == statusStore[RequestId(r)]

Completed(r) == Accepted(r) /\ HasStatus(r) /\ StatusOf(r).status = "completed"

Failed(r) == Accepted(r) /\ HasStatus(r) /\ StatusOf(r).status = "failed"

\* the worker's message reached the coordinator
MessagePosted(r) == idx[r] > 0

TableInvalid(rows) == \E i \in 1..Len(rows) : ~RowValid(rows[i])

DownloadFailed(r) ==
  \E i \in 1..Len(dl[r]) : \E k \in 1..Len(dl[r][i]) : dl[r][i][k] = "failed"

\* did the transform of reference k of item i of request r succeed
TransformOk(r, i, k) == transform[r][Offset(results[r], i) + k]

\* the output reference that belongs to reference k of item i
OwnOutput(r, i, k) == OutputRef(variant, results[r][i].downloadedPaths[k])

\* ------------------------------------------------------------------ claims

\* C1: every accepted job ends in a terminal state: once no step of its
\* pipeline remains to be taken (every handler returned, every promise that
\* can settle has settled), its status record is completed or failed.
C1_AcceptedJobEndsTerminal ==
  \A r \in Reqs :
    (Accepted(r) /\ ~ENABLED Pipeline(r)) => StatusOf(r).status \in Terminal

\* C2: a status record in a terminal state is never changed again by any
\* step: no second terminal write, no return to processing.
C2_TerminalWrittenOnce ==
  [][\A id \in DOMAIN statusStore :
       statusStore[id].status \in Terminal =>
         /\ id \in DOMAIN statusStore'
         /\ statusStore'[id] = statusStore[id]]_vars

\* C2 witness: a job whose pipeline ran on after its terminal write (the
\* notifier was called and the handler returned).
C2_Witness ==
  \E r \in Reqs :
    /\ pc[r] = "done"
    /\ Completed(r)
    /\ \E c \in 1..Len(webhookCalls) : ~webhookCalls[c].delivered

\* C3: a request whose table has an invalid row (missing name, missing
\* reference list, non-allowed extension) is never accepted: no job id in the
\* response, no status record, no pipeline.
C3_InvalidTableRejectedAtIntake ==
  \A r \in Reqs :
    TableInvalid(workload[r].table) =>
      /\ ~Accepted(r)
      /\ ~HasStatus(r)
      /\ pc[r] \in {"new", "rejected"}

\* C4: no job whose table has zero rows reaches the completed state.
C4_ZeroRowsNeverCompleted ==
  \A r \in Reqs : workload[r].table = <<>> => ~Completed(r)

\* C5: when a download of a job failed and its pipeline has ended, the status
\* is failed with the error recorded, the notifier was called with the job
\* id, no artifact and the error text, and no artifact exists for the job.
C5_FetchFailureFailsAndNotifies ==
  \A r \in Reqs :
    (DownloadFailed(r) /\ pc[r] \in Ended) =>
      /\ Failed(r)
      /\ StatusOf(r).error = "download failed"
      /\ \E c \in 1..Len(webhookCalls) :
           webhookCalls[c].form =
             [requestId |-> RequestId(r), csv |-> FALSE, error |-> "download failed"]
      /\ RequestId(r) \notin DOMAIN artifacts

\* C6: the message the worker posts for N dispatched locations has N entries,
\* entry p being the output reference of location p when its transform
\* succeeded and null when it failed.
C6_WorkerMessagePositional ==
  \A r \in Reqs :
    MessagePosted(r) =>
      LET images == Flatten([i \in 1..Len(results[r]) |-> results[r][i].downloadedPaths])
      IN  /\ Len(message[r]) = Len(images)
          /\ \A p \in 1..Len(images) :
               message[r][p] = IF transform[r][p] THEN OutputRef(variant, images[p])
                               ELSE Null

\* C7: for every item of a completed job the output list is no longer than
\* the source list, and shorter exactly when one of the item's own references
\* failed to transform.
C7_ShortfallIffOwnFailure ==
  \A r \in Reqs :
    Completed(r) =>
      \A i \in 1..Len(results[r]) :
        LET item == results[r][i] IN
        /\ Len(item.outputImageUrls) <= Len(item.inputImageUrls)
        /\ (Len(item.outputImageUrls) < Len(item.inputImageUrls))
             <=> (\E k \in 1..Len(item.inputImageUrls) : ~TransformOk(r, i, k))

\* C8: every output reference in an item's output list, in its artifact row
\* and in its persisted record is the transform result of one of that item's
\* own source references.
C8_OutputsAreOwn ==
  /\ \A r \in Reqs :
       Completed(r) =>
         \A i \in 1..Len(results[r]) :
           /\ \A o \in 1..Len(results[r][i].outputImageUrls) :
                \E k \in 1..Len(results[r][i].inputImageUrls) :
                  /\ TransformOk(r, i, k)
                  /\ results[r][i].outputImageUrls[o] = OwnOutput(r, i, k)
           /\ \A o \in 1..Len(artifacts[RequestId(r)][i].outputs) :
                \E k \in 1..Len(results[r][i].inputImageUrls) :
                  /\ TransformOk(r, i, k)
                  /\ artifacts[RequestId(r)][i].outputs[o]
                       = PublicUrl(variant, OwnOutput(r, i, k))
  /\ \A d \in 1..Len(products) :
       \A o \in 1..Len(products[d].outputImages) :
         \E k \in 1..Len(products[d].inputImages) :
           products[d].outputImages[o].storagePath
             = OutputRef(variant, products[d].inputImages[k].storagePath)

\* C9: transform failures never fail the job: a job whose worker message
\* arrived fails only on a storage error, and in a completed job an item all
\* of whose references failed to transform has an empty output field in its
\* artifact row.
C9_TransformFailureIsLocal ==
  \A r \in Reqs :
    /\ (MessagePosted(r) /\ Failed(r)) =>
         StatusOf(r).error \in {"save failed", "write failed", "status write failed"}
    /\ Completed(r) =>
         \A i \in 1..Len(results[r]) :
           (\A k \in 1..Len(results[r][i].inputImageUrls) : ~TransformOk(r, i, k))
             => artifacts[RequestId(r)][i].outputs = <<>>

\* C10: every notifier call is issued after the terminal status write of its
\* job: at the step that posts the webhook the job's status record is
\* already completed or failed.
C10_TerminalWriteBeforeNotify ==
  [][webhookCalls' # webhookCalls =>
       LET id == webhookCalls'[Len(webhookCalls')].form.requestId IN
       /\ id \in DOMAIN statusStore
       /\ statusStore[id].status \in Terminal]_vars

\* C10 witness: the notifier was called for a failed job, carrying the error
\* its status record holds.
C10_Witness ==
  \E r \in Reqs :
    /\ Failed(r)
    /\ \E c \in 1..Len(webhookCalls) :
         /\ webhookCalls[c].form.requestId = RequestId(r)
         /\ webhookCalls[c].form.error = StatusOf(r).error

\* C11: every notifier call carries the job id of a job with a status
\* record, an artifact attachment exactly when that job is completed, and an
\* error text exactly when that job is failed.
C11_FormMatchesStatus ==
  \A c \in 1..Len(webhookCalls) :
    LET form == webhookCalls[c].form IN
    /\ form.requestId \in DOMAIN statusStore
    /\ form.csv <=> statusStore[form.requestId].status = "completed"
    /\ (form.error # "") <=> statusStore[form.requestId].status = "failed"

\* C12: a notifier call whose delivery fails changes no status record and
\* raises nothing: the handler that called it returns normally; and a failed
\* job whose call was not delivered still holds the error it was called with.
C12_DeliveryFailureIsSilent ==
  /\ [][\A r \in Reqs :
          (/\ pc[r] \in {"notify", "notifyErr"}
           /\ pc'[r] # pc[r]
           /\ ~webhookCalls'[Len(webhookCalls')].delivered)
            => /\ statusStore' = statusStore
               /\ pc'[r] = "done"]_vars
  /\ [](\A r \in Reqs : \A c \in 1..Len(webhookCalls) :
          (/\ ~webhookCalls[c].delivered
           /\ webhookCalls[c].form.requestId = RequestId(r)
           /\ pc[r] = "done")
            => /\ HasStatus(r)
               /\ StatusOf(r).status \in Terminal
               /\ StatusOf(r).status = "failed" => StatusOf(r).error = webhookCalls[c].form.error)

\* C12 witness: the pipeline of a failed job ended after a notifier call that
\* was not delivered.
C12_Witness ==
  \E r \in Reqs :
    /\ pc[r] = "done"
    /\ Failed(r)
    /\ \E c \in 1..Len(webhookCalls) :
         /\ ~webhookCalls[c].delivered
         /\ webhookCalls[c].form.requestId = RequestId(r)

\* C13: when product.save() failed for an item, the save of every other item
\* is still attempted, the job does not fail because of it, and a completed
\* job's artifact has one row per item.
C13_SaveFailureIsLocal ==
  \A r \in Reqs :
    (\E j \in 1..Len(saveLog[r]) : saveLog[r][j] = "failed") =>
      /\ pc[r] # "save" => Len(saveLog[r]) = Len(results[r])
      /\ err[r] # "save failed"
      /\ Failed(r) => StatusOf(r).error # "save failed"
      /\ Completed(r) => Len(artifacts[RequestId(r)]) = Len(results[r])

\* C14: once the worker has faulted (error event, or exit without a posted
\* result) and the handler has ended, the job is failed with the worker
\* error's message and a notifier call carried that error.
C14_WorkerFaultFailsJob ==
  \A r \in Reqs :
    (workerEnd[r] \in {"error", "exit"} /\ pc[r] \in Ended) =>
      /\ Failed(r)
      /\ StatusOf(r).error = "worker error"
      /\ \E c \in 1..Len(webhookCalls) :
           /\ webhookCalls[c].form.requestId = RequestId(r)
           /\ webhookCalls[c].form.error = "worker error"

\* C16: a completed record has a completion timestamp and its job's artifact
\* is stored; a failed record has an error message; a processing record has
\* neither a timestamp nor an error.
C16_RecordShape ==
  \A id \in DOMAIN statusStore :
    LET doc == statusStore[id] IN
    /\ doc.status = "completed" => doc.completedAt /\ id \in DOMAIN artifacts
    /\ doc.status = "failed" => doc.error # ""
    /\ doc.status = "processing" => ~doc.completedAt /\ doc.error = ""

C16_Witness ==
  \E r \in Reqs :
    /\ Completed(r)
    /\ StatusOf(r).completedAt
    /\ RequestId(r) \in DOMAIN artifacts

\* C17: a job whose pipeline has started has a status record and an intake
\* response carrying its job id; the step that starts the pipeline creates the
\* record in state processing and sends the response in that same step; and
\* the response, once sent, never changes whatever the pipeline does.
C17_IntakeCreatesThenResponds ==
  /\ [](\A r \in Reqs :
          (\/ pc[r] \notin {"new", "rejected"}
           \/ \E i \in 1..Len(dl[r]) : \E k \in 1..Len(dl[r][i]) : dl[r][i][k] # "none")
            => /\ HasStatus(r)
               /\ response[r] = [code |-> 200, error |-> "", requestId |-> RequestId(r)])
  /\ [][\A r \in Reqs :
          /\ (pc[r] = "new" /\ pc'[r] \notin {"new", "rejected"})
               => /\ RequestId(r) \notin DOMAIN statusStore
                  /\ RequestId(r) \in DOMAIN statusStore'
                  /\ statusStore'[RequestId(r)] = NewStatusDoc
          /\ response[r] # NoResponse => response'[r] = response[r]]_vars

C17_Witness ==
  \E r \in Reqs :
    /\ pc[r] = "fetch"
    /\ response[r].requestId = RequestId(r)
    /\ StatusOf(r).status = "processing"
    /\ \E i \in 1..Len(dl[r]) : \E k \in 1..Len(dl[r][i]) : dl[r][i][k] = "pending"

\* the reference list read back from an artifact row, by the split-and-trim
\* the intake applies to a reference cell
ParsedBack(row) == [k \in 1..Len(row.inputs) |-> Trim(row.inputs[k])]

\* C18: the artifact of a completed job has one row per intake row, in the
\* intake order, and each row read back gives the intake row's name and its
\* list of references, in the same order.
C18_ArtifactRoundTrip ==
  \A r \in Reqs :
    Completed(r) =>
      LET rows == workload[r].table
          art  == artifacts[RequestId(r)]
      IN
      /\ Len(art) = Len(rows)
      /\ \A i \in 1..Len(rows) :
           /\ art[i].name = rows[i].name
           /\ ParsedBack(art[i]) = inputUrls(rows[i])

C18_Witness ==
  \E r \in Reqs :
    /\ Completed(r)
    /\ Len(artifacts[RequestId(r)]) = 2
    /\ artifacts[RequestId(r)][1] # artifacts[RequestId(r)][2]
    /\ \E i \in 1..2 : \E k \in 1..Len(workload[r].table[i].urls) :
         workload[r].table[i].urls[k].pad

\* C20: for a table with at least one invalid row no download is ever
\* started, for any reference of any row.
C20_InvalidBatchStartsNoDownload ==
  \A r \in Reqs :
    TableInvalid(workload[r].table) =>
      \A i \in 1..Len(dl[r]) : \A k \in 1..Len(dl[r][i]) : dl[r][i][k] = "none"

\* C19: a step that answers a status query changes no status record; an
\* answer with a record carries the record stored under the asked id, and an
\* id without a record is never answered with one (it is answered not-found
\* whenever the lookup itself succeeds); a completed record never changes
\* again, so the last completed answer is still the stored record, whatever
\* the pipeline does afterwards.
C19_QueryIsReadOnlyAndStable ==
  /\ [][lastQuery' # lastQuery =>
          /\ statusStore' = statusStore
          /\ lastQuery'.code \in {200, 404, 500}
          /\ lastQuery'.code = 200 =>
               /\ lastQuery'.id \in DOMAIN statusStore
               /\ lastQuery'.body = statusStore[lastQuery'.id]
          /\ lastQuery'.id \notin DOMAIN statusStore => lastQuery'.code \in {404, 500}
          /\ lastQuery'.code = 404 => lastQuery'.id \notin DOMAIN statusStore]_vars
  /\ [][\A id \in DOMAIN statusStore :
          statusStore[id].status = "completed" =>
            /\ id \in DOMAIN statusStore'
            /\ statusStore'[id] = statusStore[id]]_vars
  /\ [](lastQuery.code = 200 /\ lastQuery.body.status = "completed"
          => /\ lastQuery.id \in DOMAIN statusStore
             /\ statusStore[lastQuery.id] = lastQuery.body)

C19_Witness ==
  \E r \in Reqs :
    /\ pc[r] = "done"
    /\ Len(webhookCalls) > 0
    /\ lastQuery.id = RequestId(r)
    /\ lastQuery.code = 200
    /\ lastQuery.body.status = "completed"

\* C15: once a job's downloads are all stored, each of its stored locations
\* holds the blob that job downloaded; and every output reference of a
\* completed job denotes a transform of a blob that job downloaded.
C15_JobsDoNotShareStorage ==
  \A r \in Reqs :
    /\ (pc[r] \notin {"new", "rejected", "fetch", "fetchCatch"} /\ Accepted(r)) =>
         \A i \in 1..Len(results[r]) : \A k \in 1..Len(results[r][i].downloadedPaths) :
           LET loc == results[r][i].downloadedPaths[k] IN
           /\ loc \in DOMAIN blobs
           /\ blobs[loc].req = RequestId(r)
    /\ Completed(r) =>
         \A i \in 1..Len(results[r]) : \A k \in 1..Len(results[r][i].outputImageUrls) :
           LET ref == results[r][i].outputImageUrls[k] IN
           /\ ref \in DOMAIN outBlobs
           /\ outBlobs[ref].req = RequestId(r)

\* the fetch stage of request r succeeded: its worker was started
FetchSucceeded(r) == pc[r] = "worker" \/ workerEnd[r] # ""

\* C21: once the fetch stage has succeeded, whatever the order in which the
\* downloads completed, the results hold one item per table row in table
\* order, each item's stored locations are as many as its references with
\* location k holding the download of reference k, and the list handed to
\* the worker is the concatenation of the items' stored locations.
C21_ResultsArePositional ==
  \A r \in Reqs :
    FetchSucceeded(r) =>
      LET rows == workload[r].table
          res  == results[r]
          flat == Flatten([i \in 1..Len(res) |-> res[i].downloadedPaths])
      IN
      /\ Len(res) = Len(rows)
      /\ \A i \in 1..Len(rows) :
           /\ res[i].productName = rows[i].name
           /\ res[i].inputImageUrls = inputUrls(rows[i])
           /\ Len(res[i].downloadedPaths) = Len(res[i].inputImageUrls)
           /\ \A k \in 1..Len(res[i].downloadedPaths) :
                /\ res[i].downloadedPaths[k] \in DOMAIN blobs
                /\ blobs[res[i].downloadedPaths[k]].url = res[i].inputImageUrls[k]
      /\ IF variant = "fs"
         THEN workerData[r] = flat
         ELSE Flatten(workerData[r]) = flat

C21_Witness ==
  \E r \in Reqs :
    /\ pc[r] = "worker"
    /\ \E a \in 1..Len(arrival[r]) : \E b \in 1..Len(arrival[r]) :
         /\ a < b
         /\ arrival[r][a][1] = arrival[r][b][1]
         /\ arrival[r][a][2] > arrival[r][b][2]
         /\ LET urls == results[r][arrival[r][a][1]].inputImageUrls IN
            urls[arrival[r][a][2]] # urls[arrival[r][b][2]]

\* C22: two accepted requests never carry the same job id and there is one
\* status record per accepted request; and a step that creates or changes a
\* status record is a step of the one accepted request whose id keys that
\* record, every other record staying as it was.
C22_OwnRecordOnly ==
  /\ [](/\ \A r1 \in Reqs : \A r2 \in Reqs :
             (r1 # r2 /\ Accepted(r1) /\ Accepted(r2))
               => response[r1].requestId # response[r2].requestId
        /\ \A r \in Reqs : Accepted(r) => HasStatus(r) /\ response[r].requestId = RequestId(r)
        /\ Cardinality(DOMAIN statusStore) = Cardinality({r \in Reqs : Accepted(r)}))
  /\ [][\A id \in DOMAIN statusStore' :
          (id \notin DOMAIN statusStore \/ statusStore'[id] # statusStore[id])
            => /\ \E r \in Reqs :
                    /\ RequestId(r) = id
                    /\ response'[r].requestId = id
                    /\ pc'[r] # pc[r]
                    /\ \A q \in Reqs \ {r} : pc'[q] = pc[q]
               /\ \A other \in DOMAIN statusStore \ {id} :
                    /\ other \in DOMAIN statusStore'
                    /\ statusStore'[other] = statusStore[other]]_vars

C22_Witness ==
  \E r1 \in Reqs : \E r2 \in Reqs :
    /\ Accepted(r1) /\ Accepted(r2)
    /\ response[r1].requestId # response[r2].requestId
    /\ StatusOf(r1).status \in Terminal
    /\ StatusOf(r2).status = "processing"
    /\ pc[r2] \in {"fetch", "worker", "save"}

====
